---- MODULE Spec2Model ----
(***************************************************************************)
(* Assembly of the abstract optimal-control model of                       *)
(* src/model/abstract_model.py, statement by statement, and the points of  *)
(* the assembled model (the trajectories its registered relations and its  *)
(* initial-condition list admit) on the integer time grid 0..tf.           *)
(***************************************************************************)
EXTENDS Integers, Sequences, FiniteSets, TLC

\* Longest distance, in years, from the first year of a run to the year 2100.
MaxSpan == 2

\* The reference year of line 56 (2100 - m.beginyear).
Year2100 == 2100

\* Bounds of the control, line 73: bounds=(0, 2).
AbatementLow == 0
AbatementHigh == 2

----------------------------------------------------------------------------
(* The parameter sets (model.common.config.params) a run may be given.     *)

RegionNames == <<"r1", "r2">>

\* params['regions']: an ordered mapping, here its keys in order.
RegionSets == {SubSeq(RegionNames, 1, n) : n \in 0..Len(RegionNames)}

\* An optional feature: a value, or the sentinel False (on = FALSE).
Disabled == [on |-> FALSE, v |-> 0]
Enabled(v) == [on |-> TRUE, v |-> v]

BudgetChoices == {Disabled, Enabled(0)}
InertiaRegionalChoices == {Disabled, Enabled(-1)}
InertiaGlobalChoices == {Disabled, Enabled(-1)}
MinLevelChoices == {Disabled, Enabled(0)}

\* The keys the module reads; "none": every key is present.
Keys == {"regions", "SSP", "time", "initial capital", "temperature",
         "emissions", "economics"}

\* params['time']: runs that end in 2100 and start up to MaxSpan years
\* before it (the last one has an empty time span), and one run across 2100.
TimeChoices ==
    {[start |-> Year2100 - d, end |-> Year2100] : d \in 0..MaxSpan}
        \cup {[start |-> Year2100 - 1, end |-> Year2100 + 1]}

AllParams(budgets, inertias_regional, inertias_global, min_levels, absent) ==
    [regions : RegionSets,
     SSP : {"SSP1", "SSP2"},
     time : TimeChoices,
     temperature : {[initial |-> 1, TCRE |-> 1]},
     carbonbudget : budgets,
     inertia_regional : inertias_regional,
     inertia_global : inertias_global,
     min_level : min_levels,
     absent : absent]

FullParams ==
    AllParams(BudgetChoices, InertiaRegionalChoices, InertiaGlobalChoices,
              MinLevelChoices, {"none"})

\* Parameter sets with one key missing (the key 'initial capital' is a key of
\* a region): every toggle at its sentinel.
BrokenParams ==
    {q \in AllParams({Disabled}, {Disabled}, {Disabled}, {Disabled}, Keys) :
        q.absent = "initial capital" => q.regions # <<>>}

ParamSets == FullParams \cup BrokenParams

----------------------------------------------------------------------------
VARIABLES
    params,                 \* the parameter set of the process
    pc,                     \* the statement of the module to execute next
    m,                      \* the module global m (the AbstractModel)
    global_constraints,     \* the staging list of line 50
    regional_constraints,   \* the staging list of line 51
    i,                      \* position of the commit loops of lines 218-221
    first,                  \* the model the first execution assembled, once done
    sol                     \* a point of the assembled model, up to some time

vars == <<params, pc, m, global_constraints, regional_constraints, i, first,
          sol>>

Has(key) == params.absent # key

\* model.common.units.Quant: the value in the model's unit system. The
\* parameter sets above are given in model units already.
Quant(v, unit) == v

----------------------------------------------------------------------------
(* Data, lines 23-42.                                                      *)

\* data.get_data(...)['values'] on the yearly grid data_years, for the
\* emissions series: SSP1 is flat, SSP2 starts at zero and ramps up.
EmissionsData(region, SSP, year) ==
    IF SSP = "SSP1" THEN 1
    ELSE IF year <= Year2100 - 1 THEN 0 ELSE 1

\* regions[region]['initial capital']
InitialCapital(region) == IF region = "r1" THEN 2 ELSE 3

\* get_data, lines 31-33, at grid years (np.interp returns the grid value).
get_data(t, region) == EmissionsData(region, params.SSP, params.time.start + t)

\* m.baseline, line 35.
baseline(t, region) == get_data(t, region)

\* sum(f[r] for r in m.regions), lines 93, 113 and 213.
RECURSIVE SumSeq(_, _)
SumSeq(f, rs) == IF rs = <<>> THEN 0 ELSE f[Head(rs)] + SumSeq(f, Tail(rs))

\* The baselines of time t, by region.
Baselines(t, rs) == [r \in {rs[k] : k \in 1..Len(rs)} |-> baseline(t, r)]

----------------------------------------------------------------------------
(* The model object and the relations staged for it.                       *)

\* m = AbstractModel(), line 16: a model with no component.
EmptyModel ==
    [decl |-> <<>>,                   \* names of the components, in order
     val |-> [n \in {} |-> 0],        \* the scalar Params
     regions |-> <<>>,                \* m.regions (ordered)
     init_capitalstock |-> [r \in {} |-> 0],
     constraints |-> <<>>,            \* the Constraint components, in order
     init |-> <<>>,                   \* the equalities of m.init
     obj |-> <<>>]                    \* m.obj

\* A relation (one lambda of the module): the line it stands on, the variable
\* on its left-hand side, its sense, and the value it closes over.
Rel(line, lhs, op, v) == [line |-> line, lhs |-> lhs, op |-> op, v |-> v]

\* Constraint(m.t, rule=fct) and Constraint(m.t, m.regions, rule=fct).
Constraint(index, fct) == [index |-> index, rule |-> fct]

\* utils.add_constraint(m, constraint): the constraint becomes the next
\* component of the model.
add_constraint(mdl, c) == [mdl EXCEPT !.constraints = Append(@, c)]

Declare(mdl, names) == [mdl EXCEPT !.decl = @ \o names]

SetParam(mdl, name, v) ==
    [mdl EXCEPT !.decl = Append(@, name), !.val = (name :> v) @@ @]

\* Lines 92-94: the emission equations appended before m.T0 is read.
emission_regional == <<Rel(92, "regional_emissions", "==", 0)>>
emission_global ==
    <<Rel(93, "global_emissions", "==", 0),
      Rel(94, "cumulative_emissionsdot", "==", 0)>>
\* Line 98.
temperature_global == <<Rel(98, "temperature", "==", 0)>>

\* carbonbudget_global with the test written "if carbonbudget:".
carbonbudget_global_truthy(carbonbudget) ==
    IF carbonbudget.on /\ carbonbudget.v # 0
    THEN <<Rel(105, "cumulative_emissions", "<=", Quant(carbonbudget.v, "emissions_unit"))>>
    ELSE <<>>

\* Lines 102-105: carbonbudget is not False.
carbonbudget_global(carbonbudget) ==
    IF carbonbudget.on
    THEN <<Rel(105, "cumulative_emissions", "<=", Quant(carbonbudget.v, "emissions_unit"))>>
    ELSE <<>>

\* Lines 107-109.
inertia_regional_regional(inertia_regional) ==
    IF inertia_regional.on
    THEN <<Rel(109, "regional_emissionsdot", ">=", inertia_regional.v)>>
    ELSE <<>>

\* Lines 111-113.
inertia_global_global(inertia_global) ==
    IF inertia_global.on
    THEN <<Rel(113, "global_emissionsdot", ">=", inertia_global.v)>>
    ELSE <<>>

\* Lines 115-117.
min_level_global(min_level) ==
    IF min_level.on
    THEN <<Rel(117, "global_emissions", ">=", Quant(min_level.v, "emissionsrate_unit"))>>
    ELSE <<>>

\* Lines 132-139: learning.
learning_global ==
    <<Rel(133, "LBD_factor", "==", 0),
      Rel(137, "LOT_factor", "==", 0),
      Rel(139, "learning_factor", "==", 0)>>

\* Lines 150-154: damage and abatement costs, carbon price.
costs_regional ==
    <<Rel(151, "damage_costs", "==", 0),
      Rel(152, "abatement_costs", "==", 0),
      Rel(153, "carbonprice", "==", 0)>>

\* growth_regional without the capital accumulation equation of line 181.
growth_regional_without_capital_stockdot ==
    <<Rel(176, "GDP_gross", "==", 0),
      Rel(177, "GDP_net", "==", 0),
      Rel(178, "investments", "==", 0),
      Rel(179, "consumption", "==", 0),
      Rel(180, "utility", "==", 0)>>

\* Lines 175-182: Cobb-Douglas.
growth_regional ==
    <<Rel(176, "GDP_gross", "==", 0),
      Rel(177, "GDP_net", "==", 0),
      Rel(178, "investments", "==", 0),
      Rel(179, "consumption", "==", 0),
      Rel(180, "utility", "==", 0),
      Rel(181, "capital_stockdot", "==", 0)>>

\* Line 202.
npv_global == <<Rel(202, "NPVdot", "==", 0)>>

\* One equality of the initial-condition list: variable[0(, region)] == rhs.
InitEq(var, region, rhs) == [var |-> var, region |-> region, rhs |-> rhs]

\* The three equalities of one region, lines 208-210.
RECURSIVE RegionInit(_, _)
RegionInit(mdl, rs) ==
    IF rs = <<>> THEN <<>>
    ELSE <<InitEq("regional_emissions", Head(rs), baseline(0, Head(rs))),
           InitEq("capital_stock", Head(rs), mdl.init_capitalstock[Head(rs)]),
           InitEq("carbonprice", Head(rs), 0)>>
         \o RegionInit(mdl, Tail(rs))

\* _init without line 215.
_init_without_NPV(mdl) ==
    <<InitEq("temperature", "", mdl.val["T0"])>>
    \o RegionInit(mdl, mdl.regions)
    \o <<InitEq("global_emissions", "",
                SumSeq(Baselines(0, mdl.regions), mdl.regions)),
         InitEq("cumulative_emissions", "", 0)>>

\* _init(m), lines 205-215, in the order it yields.
_init(mdl) ==
    <<InitEq("temperature", "", mdl.val["T0"])>>
    \o RegionInit(mdl, mdl.regions)
    \o <<InitEq("global_emissions", "",
                SumSeq(Baselines(0, mdl.regions), mdl.regions)),
         InitEq("cumulative_emissions", "", 0),
         InitEq("NPV", "", 0)>>

----------------------------------------------------------------------------
(* The module body, one action per block of statements.                    *)

NoSol ==
    [relative_abatement |-> <<>>, regional_emissions |-> <<>>,
     global_emissions |-> <<>>, cumulative_emissions |-> <<>>,
     temperature |-> <<>>,
     capital_stock |-> [r \in {} |-> 0], NPV |-> 0,
     carbonprice |-> [r \in {} |-> 0]]

Init ==
    /\ params \in ParamSets
    /\ pc = "import"
    /\ m = EmptyModel
    /\ global_constraints = <<>>
    /\ regional_constraints = <<>>
    /\ i = 1
    /\ first = <<>>
    /\ sol = NoSol

\* Lines 16-42: m = AbstractModel(), then the data of every region.
ImportModule ==
    /\ pc = "import"
    /\ m' = EmptyModel
    /\ pc' = IF Has("regions") /\ Has("SSP") THEN "lists" ELSE "error"
    /\ UNCHANGED <<params, global_constraints, regional_constraints, i, first, sol>>

\* ResetLists with the two lists created outside the module body.
ResetLists_keep ==
    /\ pc = "lists"
    /\ pc' = "domain"
    /\ UNCHANGED <<params, m, global_constraints, regional_constraints, i, first, sol>>

\* Lines 50-51.
ResetLists ==
    /\ pc = "lists"
    /\ global_constraints' = <<>>
    /\ regional_constraints' = <<>>
    /\ pc' = "domain"
    /\ UNCHANGED <<params, m, i, first, sol>>

\* Lines 53-60: the time domain and the region set.
TimeDomainOf(mdl) ==
    LET m1 == SetParam(mdl, "beginyear", params.time.start)
        m2 == SetParam(m1, "endyear", params.time.end)
        m3 == SetParam(m2, "tf", m2.val["endyear"] - m2.val["beginyear"])
        m4 == SetParam(m3, "year2100", Year2100 - m3.val["beginyear"])
        m5 == Declare(m4, <<"t", "regions">>)
    IN  [m5 EXCEPT !.regions = params.regions]

TimeDomain ==
    /\ pc = "domain"
    /\ IF Has("time")
       THEN m' = TimeDomainOf(m) /\ pc' = "vars"
       ELSE m' = m /\ pc' = "error"
    /\ UNCHANGED <<params, global_constraints, regional_constraints, i, first, sol>>

RegionSet(mdl) == {mdl.regions[k] : k \in 1..Len(mdl.regions)}

\* Lines 66-84: variables, m.init_capitalstock, derivative variables.
DeclareVars ==
    /\ pc = "vars"
    /\ LET m1 == Declare(m, <<"temperature", "cumulative_emissions",
                              "global_emissions", "NPV", "relative_abatement">>)
           m2 == [Declare(m1, <<"init_capitalstock">>) EXCEPT
                     !.init_capitalstock =
                         [r \in RegionSet(m) |->
                             Quant(InitialCapital(r), "currency_unit")]]
           m3 == Declare(m2, <<"capital_stock", "regional_emissions",
                               "cumulative_emissionsdot", "global_emissionsdot",
                               "NPVdot", "capital_stockdot",
                               "regional_emissionsdot">>)
       IN  IF Has("initial capital") \/ m.regions = <<>>
           THEN m' = m3 /\ pc' = "emissions"
           ELSE m' = m1 /\ pc' = "error"
    /\ UNCHANGED <<params, global_constraints, regional_constraints, i, first, sol>>

\* Lines 92-98.
EmissionEquations ==
    /\ pc = "emissions"
    /\ IF Has("temperature")
       THEN /\ regional_constraints' = regional_constraints \o emission_regional
            /\ global_constraints' =
                   global_constraints \o emission_global \o temperature_global
            /\ m' = SetParam(
                      SetParam(m, "T0",
                               Quant(params.temperature.initial, "temperature_unit")),
                      "TCRE",
                      Quant(params.temperature.TCRE,
                            "(temperature_unit)/(emissions_unit)"))
            /\ pc' = "carbonbudget"
       ELSE /\ regional_constraints' = regional_constraints \o emission_regional
            /\ global_constraints' = global_constraints \o emission_global
            /\ m' = m
            /\ pc' = "error"
    /\ UNCHANGED <<params, i, first, sol>>

\* Lines 102-105.
CarbonBudget ==
    /\ pc = "carbonbudget"
    /\ IF Has("emissions")
       THEN /\ global_constraints' =
                   global_constraints \o carbonbudget_global(params.carbonbudget)
            /\ pc' = "inertia_regional"
       ELSE /\ global_constraints' = global_constraints
            /\ pc' = "error"
    /\ UNCHANGED <<params, m, regional_constraints, i, first, sol>>

\* Lines 107-109.
InertiaRegional ==
    /\ pc = "inertia_regional"
    /\ regional_constraints' =
           regional_constraints \o inertia_regional_regional(params.inertia_regional)
    /\ pc' = "inertia_global"
    /\ UNCHANGED <<params, m, global_constraints, i, first, sol>>

\* Lines 111-113.
InertiaGlobal ==
    /\ pc = "inertia_global"
    /\ global_constraints' =
           global_constraints \o inertia_global_global(params.inertia_global)
    /\ pc' = "min_level"
    /\ UNCHANGED <<params, m, regional_constraints, i, first, sol>>

\* Lines 115-117.
MinLevel ==
    /\ pc = "min_level"
    /\ global_constraints' = global_constraints \o min_level_global(params.min_level)
    /\ pc' = "costs"
    /\ UNCHANGED <<params, m, regional_constraints, i, first, sol>>

\* Lines 127-154: learning, damage and abatement costs.
Costs ==
    /\ pc = "costs"
    /\ IF Has("economics")
       THEN /\ m' = Declare(m, <<"LBD_rate", "log_LBD_rate", "LBD_factor",
                                 "learning_factor", "LOT_rate", "LOT_factor",
                                 "damage_costs", "abatement_costs", "carbonprice",
                                 "damage_factor", "damage_coeff", "MAC_gamma",
                                 "MAC_beta">>)
            /\ global_constraints' = global_constraints \o learning_global
            /\ regional_constraints' = regional_constraints \o costs_regional
            /\ pc' = "growth"
       ELSE /\ UNCHANGED <<m, global_constraints, regional_constraints>>
            /\ pc' = "error"
    /\ UNCHANGED <<params, i, first, sol>>

\* Lines 163-182: Cobb-Douglas.
Growth ==
    /\ pc = "growth"
    /\ m' = Declare(m, <<"alpha", "dk", "sr", "elasmu", "GDP_gross", "GDP_net",
                         "investments", "consumption", "utility">>)
    /\ regional_constraints' = regional_constraints \o growth_regional
    /\ pc' = "npv"
    /\ UNCHANGED <<params, global_constraints, i, first, sol>>

\* Optimisation registering its relation on the model as it stages it.
Optimisation_eager ==
    /\ pc = "npv"
    /\ m' = add_constraint(Declare(m, <<"PRTP">>), Constraint("t", npv_global[1]))
    /\ global_constraints' = global_constraints \o npv_global
    /\ pc' = "init"
    /\ UNCHANGED <<params, regional_constraints, i, first, sol>>

\* Lines 201-202.
Optimisation ==
    /\ pc = "npv"
    /\ m' = Declare(m, <<"PRTP">>)
    /\ global_constraints' = global_constraints \o npv_global
    /\ pc' = "init"
    /\ UNCHANGED <<params, regional_constraints, i, first, sol>>

\* Line 216: m.init = ConstraintList(rule=_init).
InitialConditions ==
    /\ pc = "init"
    /\ m' = [Declare(m, <<"init">>) EXCEPT !.init = _init(m)]
    /\ pc' = "commit_global"
    /\ i' = 1
    /\ UNCHANGED <<params, global_constraints, regional_constraints, first, sol>>

\* Lines 218-219: one turn of the loop over global_constraints.
CommitGlobal ==
    /\ pc = "commit_global"
    /\ IF i <= Len(global_constraints)
       THEN /\ m' = add_constraint(m, Constraint("t", global_constraints[i]))
            /\ i' = i + 1
            /\ pc' = pc
       ELSE /\ m' = m
            /\ i' = 1
            /\ pc' = "commit_regional"
    /\ UNCHANGED <<params, global_constraints, regional_constraints, first, sol>>

\* Lines 220-221: one turn of the loop over regional_constraints.
CommitRegional ==
    /\ pc = "commit_regional"
    /\ IF i <= Len(regional_constraints)
       THEN /\ m' = add_constraint(m, Constraint("t,regions", regional_constraints[i]))
            /\ i' = i + 1
            /\ pc' = pc
       ELSE /\ m' = m
            /\ i' = 1
            /\ pc' = "objective"
    /\ UNCHANGED <<params, global_constraints, regional_constraints, first, sol>>

\* Line 223: m.obj = Objective(rule=lambda m: m.NPV[m.tf], sense=maximize).
DeclareObjective ==
    /\ pc = "objective"
    /\ m' = [Declare(m, <<"obj">>) EXCEPT
                !.obj = <<[var |-> "NPV", at |-> m.val["tf"], sense |-> "maximize"]>>]
    /\ pc' = "done"
    /\ first' = IF first = <<>>
                THEN <<[m |-> m', global |-> global_constraints,
                        regional |-> regional_constraints]>>
                ELSE first
    /\ UNCHANGED <<params, global_constraints, regional_constraints, i, sol>>

\* The module body is executed again in the same process (importlib.reload):
\* the module's globals keep their values until the body reassigns them.
Reload ==
    /\ pc = "done"
    /\ pc' = "import"
    /\ sol' = NoSol
    /\ UNCHANGED <<params, m, global_constraints, regional_constraints, i, first>>

Assemble ==
    \/ ImportModule \/ ResetLists \/ TimeDomain \/ DeclareVars
    \/ EmissionEquations \/ CarbonBudget \/ InertiaRegional \/ InertiaGlobal
    \/ MinLevel \/ Costs \/ Growth \/ Optimisation \/ InitialConditions
    \/ CommitGlobal \/ CommitRegional \/ DeclareObjective \/ Reload

----------------------------------------------------------------------------
(* The assembled model on the time grid 0..tf: a point gives every         *)
(* variable of the emission and temperature block a value at one time, and *)
(* the variables fixed by the initial-condition list a value at time 0.    *)
(* The relations of lines 133-202 rest on model.common.economics and on    *)
(* variables outside this block and are not evaluated.                     *)

\* One time point: relative_abatement[t,.], regional_emissions[t,.],
\* global_emissions[t], cumulative_emissions[t], temperature[t].
Point(ra, re, ge, ce, temp) ==
    [ra |-> ra, re |-> re, ge |-> ge, ce |-> ce, temp |-> temp]

\* The values at time 0 of capital_stock[0,.], NPV[0], carbonprice[0,.].
Start(cs, npv, cp) == [cs |-> cs, npv |-> npv, cp |-> cp]

\* regional_emissions_rule reading the baseline of time 0, as lines 109 and
\* 113 do.
regional_emissions_rule_baseline0(t, r, p) ==
    p.re[r] = (1 - p.ra[r]) * baseline(0, r)

\* regional_emissions_rule left out at time 0.
regional_emissions_rule_after_start(t, r, p) ==
    t = 0 \/ p.re[r] = (1 - p.ra[r]) * baseline(t, r)

\* Line 92.
regional_emissions_rule(t, r, p) ==
    p.re[r] = (1 - p.ra[r]) * baseline(t, r)

\* global_emissions_rule summing the baselines.
global_emissions_rule_baseline(mdl, t, p) ==
    p.ge = SumSeq(Baselines(t, mdl.regions), mdl.regions)

\* Line 93.
global_emissions_rule(mdl, t, p) ==
    p.ge = SumSeq(p.re, mdl.regions)

\* DerivativeVar(x, wrt=m.t), lines 80-84, on the grid: the backward
\* difference over one year; at t = 0 the derivative is tied to nothing.
Dot(cur, prev) == cur - prev

\* Line 94.
cumulative_emissionsdot_rule(t, p, q) ==
    t = 0 \/ Dot(p.ce, q.ce) = p.ge

\* Line 98.
temperature_rule(mdl, t, p) ==
    p.temp = mdl.val["T0"] + mdl.val["TCRE"] * p.ce

\* carbonbudget_skip with the comparison written t > m.year2100.
carbonbudget_skip_strict(mdl, t) == ~(t > mdl.val["year2100"])

\* Line 105: the rule returns Constraint.Skip unless t >= m.year2100.
carbonbudget_skip(mdl, t) == ~(t >= mdl.val["year2100"])

carbonbudget_rule(budget, t, p) == p.ce - budget <= 0

\* Line 109.
inertia_regional_rule(inertia_regional, t, r, p, q) ==
    t = 0 \/ Dot(p.re[r], q.re[r]) >= inertia_regional * baseline(0, r)

\* Line 113.
inertia_global_rule(mdl, inertia_global, t, p, q) ==
    t = 0 \/ Dot(p.ge, q.ge)
                >= inertia_global * SumSeq(Baselines(0, mdl.regions), mdl.regions)

\* Line 117.
min_level_rule(min_level, t, p) == p.ge >= min_level

\* Whether the rule of a relation yields no relation at time t.
Skips(mdl, rel, t) == rel.line = 105 /\ carbonbudget_skip(mdl, t)

\* The relation built by a rule at (t, r), evaluated at point p with the
\* point q before it.
Holds(mdl, rel, t, r, p, q) ==
    CASE rel.line = 92 -> regional_emissions_rule(t, r, p)
      [] rel.line = 93 -> global_emissions_rule(mdl, t, p)
      [] rel.line = 94 -> cumulative_emissionsdot_rule(t, p, q)
      [] rel.line = 98 -> temperature_rule(mdl, t, p)
      [] rel.line = 105 -> carbonbudget_rule(rel.v, t, p)
      [] rel.line = 109 -> inertia_regional_rule(rel.v, t, r, p, q)
      [] rel.line = 113 -> inertia_global_rule(mdl, rel.v, t, p, q)
      [] rel.line = 117 -> min_level_rule(rel.v, t, p)
      [] OTHER -> TRUE

\* A Constraint component at time t: every index of it that is not skipped.
ConstraintHolds(mdl, c, t, p, q) ==
    \/ Skips(mdl, c.rule, t)
    \/ IF c.index = "t"
       THEN Holds(mdl, c.rule, t, "", p, q)
       ELSE \A r \in RegionSet(mdl) : Holds(mdl, c.rule, t, r, p, q)

\* One equality of m.init, at the point p of time 0 and the start values s.
InitHolds(e, p, s) ==
    CASE e.var = "temperature" -> p.temp = e.rhs
      [] e.var = "regional_emissions" -> p.re[e.region] = e.rhs
      [] e.var = "global_emissions" -> p.ge = e.rhs
      [] e.var = "cumulative_emissions" -> p.ce = e.rhs
      [] e.var = "capital_stock" -> s.cs[e.region] = e.rhs
      [] e.var = "carbonprice" -> s.cp[e.region] = e.rhs
      [] e.var = "NPV" -> s.npv = e.rhs
      [] OTHER -> TRUE

\* The variables are given values in the order control and regional
\* emissions (1), global emissions (2), cumulative emissions (3),
\* temperature (4), start values (5); a relation is decided at the level of
\* the last variable it reads.
Level(name) ==
    CASE name \in {"regional_emissions", "regional_emissionsdot",
                   "relative_abatement"} -> 1
      [] name \in {"global_emissions", "global_emissionsdot"} -> 2
      [] name \in {"cumulative_emissions", "cumulative_emissionsdot"} -> 3
      [] name = "temperature" -> 4
      [] name \in {"capital_stock", "carbonprice", "NPV"} -> 5
      [] OTHER -> 0

Admits(mdl, lvl, t, p, q, s) ==
    /\ \A k \in 1..Len(mdl.constraints) :
          Level(mdl.constraints[k].rule.lhs) = lvl
              => ConstraintHolds(mdl, mdl.constraints[k], t, p, q)
    /\ t = 0 =>
          \A k \in 1..Len(mdl.init) :
              Level(mdl.init[k].var) = lvl => InitHolds(mdl.init[k], p, s)

Grid(mdl) == 0..mdl.val["tf"]

Max(S) == CHOOSE x \in S : \A y \in S : y <= x

\* Largest regional emission rate, in absolute value, the control allows.
EmissionBound(mdl) ==
    Max({0} \cup {baseline(t, r) * Max({AbatementHigh - 1, 1 - AbatementLow}) :
                      t \in Grid(mdl), r \in RegionSet(mdl)})

Controls == AbatementLow..AbatementHigh
RegionalValues(mdl) == (0 - EmissionBound(mdl))..EmissionBound(mdl)
GlobalBound(mdl) == Len(mdl.regions) * EmissionBound(mdl)
GlobalValues(mdl) == (0 - GlobalBound(mdl))..GlobalBound(mdl)
CumulativeBound(mdl) == Max({1, mdl.val["tf"]}) * GlobalBound(mdl)
CumulativeValues(mdl) == (0 - CumulativeBound(mdl))..CumulativeBound(mdl)
TemperatureValues(mdl) ==
    (mdl.val["T0"] - mdl.val["TCRE"] * CumulativeBound(mdl) - 1)
        ..(mdl.val["T0"] + mdl.val["TCRE"] * CumulativeBound(mdl) + 1)
CapitalValues(mdl) ==
    0..Max({0} \cup {mdl.init_capitalstock[r] : r \in RegionSet(mdl)})
NPVValues == 0..1
PriceValues == 0..1

NoStart == Start([r \in {} |-> 0], 0, [r \in {} |-> 0])

\* The points of time t, after point q, that every relation of the model at
\* time t admits.
Points(mdl, t, q) ==
    LET P1 == {p \in {Point(a, e, 0, 0, 0) :
                         a \in [RegionSet(mdl) -> Controls],
                         e \in [RegionSet(mdl) -> RegionalValues(mdl)]} :
                  Admits(mdl, 1, t, p, q, NoStart)}
        P2 == UNION {{[p EXCEPT !.ge = g] :
                         g \in {h \in GlobalValues(mdl) :
                                   Admits(mdl, 2, t, [p EXCEPT !.ge = h], q, NoStart)}} :
                     p \in P1}
        P3 == UNION {{[p EXCEPT !.ce = c] :
                         c \in {h \in CumulativeValues(mdl) :
                                   Admits(mdl, 3, t, [p EXCEPT !.ce = h], q, NoStart)}} :
                     p \in P2}
    IN  UNION {{[p EXCEPT !.temp = x] :
                   x \in {h \in TemperatureValues(mdl) :
                             Admits(mdl, 4, t, [p EXCEPT !.temp = h], q, NoStart)}} :
               p \in P3}

\* The start values the initial-condition list admits.
Starts(mdl, p) ==
    {s \in {Start(cs, npv, cp) :
               cs \in [RegionSet(mdl) -> CapitalValues(mdl)],
               npv \in NPVValues,
               cp \in [RegionSet(mdl) -> PriceValues]} :
        Admits(mdl, 5, 0, p, p, s)}

Length(s) == Len(s.global_emissions)

PointAt(s, k) ==
    Point(s.relative_abatement[k], s.regional_emissions[k], s.global_emissions[k],
          s.cumulative_emissions[k], s.temperature[k])

Extend(s, p) ==
    [s EXCEPT !.relative_abatement = Append(@, p.ra),
              !.regional_emissions = Append(@, p.re),
              !.global_emissions = Append(@, p.ge),
              !.cumulative_emissions = Append(@, p.ce),
              !.temperature = Append(@, p.temp)]

\* The sealed model admits a point at time 0.
InitialPoint ==
    /\ pc = "done"
    /\ Length(sol) = 0
    /\ \E p \in Points(m, 0, Point(<<>>, <<>>, 0, 0, 0)) :
          \E s \in Starts(m, p) :
              sol' = [Extend(sol, p) EXCEPT !.capital_stock = s.cs,
                                            !.NPV = s.npv,
                                            !.carbonprice = s.cp]
    /\ UNCHANGED <<params, pc, m, global_constraints, regional_constraints, i, first>>

\* The sealed model admits a point at the next time of the grid.
NextPoint ==
    /\ pc = "done"
    /\ Length(sol) > 0
    /\ Length(sol) \in Grid(m)
    /\ \E p \in Points(m, Length(sol), PointAt(sol, Length(sol))) :
          sol' = Extend(sol, p)
    /\ UNCHANGED <<params, pc, m, global_constraints, regional_constraints, i, first>>

Next == Assemble \/ InitialPoint \/ NextPoint

Spec == Init /\ [][Next]_vars

----------------------------------------------------------------------------
(* Vocabulary of the properties.                                           *)

Sealed == pc = "done"

CountIn(seq, P(_)) == Cardinality({k \in 1..Len(seq) : P(seq[k])})

\* The relations staged so far, and the Constraint components they become.
Staged == global_constraints \o regional_constraints

AsConstraints(index, rels) == [k \in 1..Len(rels) |-> Constraint(index, rels[k])]

Committed ==
    AsConstraints("t", global_constraints)
        \o AsConstraints("t,regions", regional_constraints)

IsPrefix(s, t) == Len(s) <= Len(t) /\ s = SubSeq(t, 1, Len(s))

\* The Constraint components of the model that yield a relation at time t.
RelationsAt(mdl, t) ==
    {k \in 1..Len(mdl.constraints) : ~Skips(mdl, mdl.constraints[k].rule, t)}

UpperBoundsOnCumulative(mdl, t) ==
    {k \in RelationsAt(mdl, t) :
        /\ mdl.constraints[k].rule.lhs = "cumulative_emissions"
        /\ mdl.constraints[k].rule.op = "<="}

Times == 1..Length(sol)
Complete == Sealed /\ Length(sol) = m.val["tf"] + 1

InitCount(var, region) ==
    CountIn(m.init, LAMBDA e : e.var = var /\ e.region = region)

InitFixes(var, region, rhs) ==
    CountIn(m.init, LAMBDA e : e = InitEq(var, region, rhs)) >= 1

\* The equations var[t(, r)] == ... among the Constraint components.
DefiningCount(var) ==
    CountIn(m.constraints, LAMBDA c : c.rule.lhs = var /\ c.rule.op = "==")

OccurrenceCount(var) == CountIn(m.constraints, LAMBDA c : c.rule.lhs = var)

\* The optional features: the line of the relation and whether the
\* parameter set configures it.
Features == {105, 109, 113, 117}

Configured(line) ==
    CASE line = 105 -> params.carbonbudget.on
      [] line = 109 -> params.inertia_regional.on
      [] line = 113 -> params.inertia_global.on
      [] line = 117 -> params.min_level.on

LineCount(seq, line) == CountIn(seq, LAMBDA x : x.line = line)

----------------------------------------------------------------------------
(* C1: in the assembled model, a trajectory whose control is 1 at every    *)
(* time and region has zero regional emissions, zero cumulative emissions  *)
(* and temperature T0 at every time.                                       *)
FullAbatement ==
    \A k \in Times : \A r \in RegionSet(m) : sol.relative_abatement[k][r] = 1

C1_FullAbatementZeroEmissions ==
    (Sealed /\ FullAbatement) =>
        \A k \in Times :
            /\ \A r \in RegionSet(m) : sol.regional_emissions[k][r] = 0
            /\ sol.cumulative_emissions[k] = 0
            /\ sol.temperature[k] = m.val["T0"]

\* A whole trajectory, over two years at least and two regions, with the
\* control at 1 throughout and a nonzero baseline along the way.
C1_Witness ==
    /\ Complete
    /\ Length(sol) >= 3
    /\ Len(m.regions) = 2
    /\ FullAbatement
    /\ \E k \in Times : \E r \in RegionSet(m) : baseline(k - 1, r) # 0

(* C2: with a carbon budget B configured, the model holds the relation     *)
(* cumulative_emissions(t) <= B at every time t >= year2100 = 2100 -       *)
(* beginyear and no upper bound on cumulative emissions at any earlier     *)
(* time; every admitted trajectory respects B from year2100 on.            *)
C2_BudgetOnlyFrom2100 ==
    (Sealed /\ params.carbonbudget.on) =>
        /\ m.val["year2100"] = Year2100 - params.time.start
        /\ \A t \in Grid(m) :
              IF t >= Year2100 - params.time.start
              THEN /\ Cardinality(UpperBoundsOnCumulative(m, t)) = 1
                   /\ \A k \in UpperBoundsOnCumulative(m, t) :
                         /\ m.constraints[k].rule.v = params.carbonbudget.v
                         /\ m.constraints[k].index = "t"
              ELSE UpperBoundsOnCumulative(m, t) = {}
        /\ \A k \in Times :
              k - 1 >= Year2100 - params.time.start
                  => sol.cumulative_emissions[k] <= params.carbonbudget.v

\* An admitted trajectory above the budget before 2100 and within it in 2100.
C2_Witness ==
    /\ Sealed
    /\ params.carbonbudget.on
    /\ \E k \in Times :
          /\ k - 1 < m.val["year2100"]
          /\ sol.cumulative_emissions[k] > params.carbonbudget.v
    /\ \E k \in Times :
          /\ k - 1 = m.val["year2100"]
          /\ sol.cumulative_emissions[k] <= params.carbonbudget.v

(* C3: an optional relation (carbon budget, regional inertia, global       *)
(* inertia, emission floor) is in the model if and only if its parameter   *)
(* is configured: a feature that is not configured is at no moment in a    *)
(* staging list or in the model, a configured one is staged once from its  *)
(* block on and is registered once in the sealed model; without a budget   *)
(* no upper bound on cumulative emissions exists at any time.              *)
AfterBlock(line) ==
    CASE line = 105 -> {"inertia_regional", "inertia_global", "min_level", "costs",
                        "growth", "npv", "init", "commit_global",
                        "commit_regional", "objective", "done"}
      [] line = 109 -> {"inertia_global", "min_level", "costs", "growth", "npv",
                        "init", "commit_global", "commit_regional", "objective",
                        "done"}
      [] line = 113 -> {"min_level", "costs", "growth", "npv", "init",
                        "commit_global", "commit_regional", "objective", "done"}
      [] line = 117 -> {"costs", "growth", "npv", "init", "commit_global",
                        "commit_regional", "objective", "done"}

C3_OptionalIffConfigured ==
    /\ \A f \in Features :
          IF Configured(f)
          THEN /\ pc \in AfterBlock(f) => LineCount(Staged, f) = 1
               /\ Sealed =>
                     CountIn(m.constraints, LAMBDA c : c.rule.line = f) = 1
          ELSE /\ LineCount(Staged, f) = 0
               /\ CountIn(m.constraints, LAMBDA c : c.rule.line = f) = 0
    /\ ~params.carbonbudget.on =>
          \A t \in 0..(MaxSpan + 1) : UpperBoundsOnCumulative(m, t) = {}

\* A sealed model with some features configured and the others not.
C3_Witness ==
    /\ Sealed
    /\ params.carbonbudget.on /\ ~params.inertia_regional.on
    /\ params.inertia_global.on /\ ~params.min_level.on

(* C4: a model assembled over a non-empty region set fixes, through        *)
(* equalities of the initial-condition list, temperature(0) = T0,          *)
(* cumulative_emissions(0) = 0, NPV(0) = 0 and capital_stock(0,r) =        *)
(* init_capitalstock(r) for every region r, and every admitted point of    *)
(* time 0 has these values.                                                *)
C4_InitialConditions ==
    (Sealed /\ m.regions # <<>>) =>
        /\ InitFixes("temperature", "", Quant(params.temperature.initial, "temperature_unit"))
        /\ InitFixes("cumulative_emissions", "", 0)
        /\ InitFixes("NPV", "", 0)
        /\ \A r \in RegionSet(m) :
              InitFixes("capital_stock", r, Quant(InitialCapital(r), "currency_unit"))
        /\ Length(sol) >= 1 =>
              /\ sol.temperature[1] = Quant(params.temperature.initial, "temperature_unit")
              /\ sol.cumulative_emissions[1] = 0
              /\ sol.NPV = 0
              /\ \A r \in RegionSet(m) :
                    sol.capital_stock[r] = Quant(InitialCapital(r), "currency_unit")

\* An admitted point of time 0 of a model over two regions.
C4_Witness ==
    /\ Sealed
    /\ Len(m.regions) = 2
    /\ Length(sol) >= 1

(* C5: the relation regional_emissions(t,r) = (1 - relative_abatement(t,r))*)
(* * baseline(t,r) is in the model at every time of [0, tf], time 0        *)
(* included, and every region, and every admitted trajectory satisfies it  *)
(* exactly, whatever value in [0, 2] the control takes.                    *)
C5_RegionalEmissionsIdentity ==
    Sealed =>
        /\ \A t \in Grid(m) :
              Cardinality({k \in RelationsAt(m, t) :
                              m.constraints[k] = Constraint("t,regions", Rel(92, "regional_emissions", "==", 0))}) = 1
        /\ \A k \in Times : \A r \in RegionSet(m) :
              /\ sol.relative_abatement[k][r] \in AbatementLow..AbatementHigh
              /\ sol.regional_emissions[k][r] =
                     (1 - sol.relative_abatement[k][r]) * baseline(k - 1, r)

\* A whole trajectory where the control takes each of 0, 1 and 2 at a time
\* and region of nonzero baseline.
C5_Witness ==
    /\ Complete
    /\ \A a \in AbatementLow..AbatementHigh :
          \E k \in Times : \E r \in RegionSet(m) :
              /\ sol.relative_abatement[k][r] = a
              /\ baseline(k - 1, r) # 0

(* C6 as stated: in the sealed model every stateful trajectory has exactly *)
(* one initial-condition constraint and every derivative variable has      *)
(* exactly one defining differential equation.                             *)
\* Lines 80-84: the derivative variables and the trajectories they derive.
DerivativeVars ==
    {"cumulative_emissionsdot", "global_emissionsdot", "NPVdot",
     "capital_stockdot", "regional_emissionsdot"}

StateOf(dot) ==
    CASE dot = "cumulative_emissionsdot" -> "cumulative_emissions"
      [] dot = "global_emissionsdot" -> "global_emissions"
      [] dot = "NPVdot" -> "NPV"
      [] dot = "capital_stockdot" -> "capital_stock"
      [] dot = "regional_emissionsdot" -> "regional_emissions"

Regional(var) == var \in {"capital_stock", "regional_emissions"}

OneInitialCondition(var) ==
    IF Regional(var)
    THEN \A r \in RegionSet(m) : InitCount(var, r) = 1
    ELSE InitCount(var, "") = 1

C6_Original ==
    Sealed =>
        \A d \in DerivativeVars :
            /\ OneInitialCondition(StateOf(d))
            /\ DefiningCount(d) = 1

(* C6, amended: in the sealed model, under every configuration of the      *)
(* toggles, every stateful trajectory has exactly one initial-condition    *)
(* constraint; cumulative_emissionsdot, NPVdot and capital_stockdot have   *)
(* exactly one defining differential equation, and global_emissionsdot and *)
(* regional_emissionsdot have none: each occurs only in its inertia        *)
(* inequality, when that is configured.                                    *)
C6_Amended ==
    Sealed =>
        /\ \A d \in DerivativeVars :
              /\ d \in {m.decl[k] : k \in 1..Len(m.decl)}
              /\ OneInitialCondition(StateOf(d))
        /\ \A d \in {"cumulative_emissionsdot", "NPVdot", "capital_stockdot"} :
              DefiningCount(d) = 1 /\ OccurrenceCount(d) = 1
        /\ DefiningCount("global_emissionsdot") = 0
        /\ DefiningCount("regional_emissionsdot") = 0
        /\ OccurrenceCount("global_emissionsdot")
               = (IF params.inertia_global.on THEN 1 ELSE 0)
        /\ OccurrenceCount("regional_emissionsdot")
               = (IF params.inertia_regional.on THEN 1 ELSE 0)

\* A sealed model over two regions with both inertia limits configured.
C6_Witness ==
    /\ Sealed
    /\ Len(m.regions) = 2
    /\ params.inertia_global.on /\ params.inertia_regional.on

(* C7: a second execution of the module body on the same parameter set     *)
(* assembles the same model as the first: same components, parameters,     *)
(* relations in the same order and initial conditions; its staging lists   *)
(* are empty when its first block starts appending.                        *)
C7_SecondAssemblyIdentical ==
    /\ Sealed =>
          first = <<[m |-> m, global |-> global_constraints,
                     regional |-> regional_constraints]>>
    /\ (first # <<>> /\ pc = "objective") =>
          /\ m.decl \o <<"obj">> = first[1].m.decl
          /\ m.val = first[1].m.val
          /\ m.regions = first[1].m.regions
          /\ m.init_capitalstock = first[1].m.init_capitalstock
          /\ m.constraints = first[1].m.constraints
          /\ m.init = first[1].m.init
          /\ global_constraints = first[1].global
          /\ regional_constraints = first[1].regional
    /\ (first # <<>> /\ pc \in {"domain", "vars", "emissions"}) =>
          /\ global_constraints = <<>>
          /\ regional_constraints = <<>>
          /\ m.constraints = <<>>

\* The second execution, every relation committed, about to declare m.obj.
C7_Witness ==
    /\ first # <<>>
    /\ pc = "objective"
    /\ Len(m.regions) = 2
    /\ params.carbonbudget.on

(* C8 as stated: a parameter set with a configuration error (a missing     *)
(* key, endyear <= beginyear, or no region) never gets a constraint, an    *)
(* initial-condition list or an objective registered on the model.         *)
ConfigurationError ==
    \/ params.absent # "none"
    \/ params.time.end <= params.time.start
    \/ params.regions = <<>>

C8_NoPartialModel ==
    ConfigurationError =>
        /\ m.constraints = <<>>
        /\ m.init = <<>>
        /\ m.obj = <<>>
        /\ pc # "done"

(* C9: assembly collects, then commits: while the blocks append, nothing   *)
(* is registered on the model; the commit loops register the staged        *)
(* relations in order, the global ones over time before the regional ones  *)
(* over time x region, each once; m.obj is declared only when every staged *)
(* relation is registered.                                                 *)
Appending ==
    {"lists", "domain", "vars", "emissions", "carbonbudget", "inertia_regional",
     "inertia_global", "min_level", "costs", "growth", "npv", "init"}

NoDuplicates(seq) == \A j, k \in 1..Len(seq) : seq[j] = seq[k] => j = k

C9_CollectThenCommit ==
    /\ pc \in Appending => (m.constraints = <<>> /\ m.init = <<>> /\ m.obj = <<>>)
    /\ IsPrefix(m.constraints, Committed)
    /\ pc = "commit_global" =>
          m.constraints = AsConstraints("t", SubSeq(global_constraints, 1, i - 1))
    /\ pc = "commit_regional" =>
          m.constraints =
              AsConstraints("t", global_constraints)
                  \o AsConstraints("t,regions", SubSeq(regional_constraints, 1, i - 1))
    /\ (pc \in {"objective", "done"} \/ m.obj # <<>>) =>
          (m.constraints = Committed /\ NoDuplicates(m.constraints))

\* Mid-commit: every global relation and one regional relation registered,
\* no objective yet.
C9_Witness ==
    /\ pc = "commit_regional"
    /\ i = 2
    /\ m.obj = <<>>
    /\ Len(m.constraints) = Len(global_constraints) + 1

(* C10: in the sealed model, whichever toggles are configured, no admitted *)
(* point of time 0 has a nonzero control in a region whose baseline at     *)
(* time 0 is nonzero.                                                      *)
C10_ControlFixedAtStart ==
    (Sealed /\ Length(sol) >= 1) =>
        \A r \in RegionSet(m) :
            baseline(0, r) # 0 => sol.relative_abatement[1][r] = 0

\* An admitted point of time 0 in a region of nonzero baseline, with every
\* toggle configured.
C10_Witness ==
    /\ Sealed
    /\ Length(sol) >= 1
    /\ \E r \in RegionSet(m) : baseline(0, r) # 0
    /\ params.carbonbudget.on /\ params.inertia_regional.on
    /\ params.inertia_global.on /\ params.min_level.on

====
